---- MODULE Spec2Model ----
(***************************************************************************)
(* Model of src/main.js: the three.js background scene of the portfolio    *)
(* page (TechNetwork, IoTNexus, lights), its animation loop, the scroll    *)
(* handler and the theme handling; and of two pieces of page behaviour of  *)
(* the same script, the project carousel and the typewriter.  The three    *)
(* parts share no state, so each has its own specification, in which the   *)
(* state of the other two stays as it is.                                  *)
(*                                                                         *)
(* Numbers.  The source works in IEEE doubles; the model uses exact        *)
(* fixed-point integers, so rounding of repeated additions is abstracted.  *)
(*   angles and positions : units of 0.0001   (0.002 rad  -> 20)           *)
(*   light / emissive intensities : units of 0.1   (1.5 -> 15)             *)
(*   opacities and fog density    : units of 0.01  (0.15 -> 15)            *)
(*   colours : the 24 bit hex value, written \Hrrggbb                      *)
(* Objects whose identity matters (materials, fog, background colour) are  *)
(* records with an id field; ids are handed out by a heap counter in the   *)
(* order of the new-expressions of the source.                             *)
(***************************************************************************)
EXTENDS Integers, Sequences, FiniteSets, TLC

VARIABLES
    pc,            \* position in the module script: "animate", "theme", then "running"
    scene,         \* scene.background, scene.fog
    network,       \* the TechNetwork instance
    nexus,         \* the IoTNexus instance
    lights,        \* lights.{ambient,key,rim,fill}.intensity
    camera,        \* camera.position.y and the OrbitControls auto-rotate steps
    storage,       \* localStorage.getItem('theme')
    dataTheme,     \* body attribute data-theme
    themeSwitch,   \* the #theme-switch element: present, checked
    rafPending,    \* animate callbacks queued by requestAnimationFrame
    heapNext,      \* id of the next allocated object
    frames,        \* history: number of animate() runs
    frameLog,      \* history: calls made by the last animate() run, in order
    rendered,      \* history: what the last renderer.render call drew
    themeLog,      \* history: arguments of the updateTheme calls so far
    lastChecked,   \* history: "checked" / "unchecked" of the last change event, or "none"
    lastScroll,    \* history: body top offset read by the last onScroll
    lastOp,        \* history: the handler that ran last
    built          \* history: copy of scene, network, nexus and lights as constructed

\* the carousel, lines 452-546
VARIABLES
    cpc,             \* "absent" (no .carousel-track-full), "script", then "running"
    track,           \* the children of trackfull, in document order
    trackStyle,      \* trackfull.style.transition and .transform
    isTransitioning, \* isTransitioning
    timers,          \* carouselInterval, the interval timers still set, the next timer id
    timeouts,        \* callbacks queued by setTimeout and not yet run
    hovering,        \* history: the pointer is over .carousel-container-full
    carouselOp,      \* history: the carousel handler that ran last
    accepted         \* history: nextSlide / prevSlide calls that passed the guard

\* the typewriter, lines 384-419
VARIABLES
    tpc,             \* "absent" (no #typewriter), "script", then "running"
    phraseIndex,     \* phraseIndex
    charIndex,       \* charIndex
    isDeleting,      \* isDeleting
    typeSpeed,       \* typeSpeed
    textContent,     \* typeWriterElement.textContent, as a sequence of characters
    typePending,     \* type callbacks queued by setTimeout and not yet run
    typeLog          \* history: the branch the last type() run took

sceneVars == <<pc, scene, network, nexus, lights, camera, storage, dataTheme,
               themeSwitch, rafPending, heapNext, frames, frameLog, rendered,
               themeLog, lastChecked, lastScroll, lastOp, built>>

carouselVars == <<cpc, track, trackStyle, isTransitioning, timers, timeouts,
                  hovering, carouselOp, accepted>>

typeVars == <<tpc, phraseIndex, charIndex, isDeleting, typeSpeed, textContent,
              typePending, typeLog>>

vars == <<sceneVars, carouselVars, typeVars>>

----------------------------------------------------------------------------
(* Bounds of the model *)

\* particles built by initParticles (the source builds particleCount = 200)
ParticleBound == 2
\* animate() runs explored
MaxFrames == 3
\* updateTheme calls explored (the startup call included)
MaxThemeCalls == 3

\* values Math.random() can give a particle: (x, y, z) with
\* x in [-50, 50), y and z in [-30, 30), in whole units here
ParticleCoords == { <<-50, -30, -30>>, <<-40, -28, -25>> }
\* values (Math.random() - 0.5) * 0.02 can give a ring: [-0.01, 0.01)
RingSpeeds == { [x |-> -100, y |-> 0, z |-> 37], [x |-> 99, y |-> -1, z |-> 0] }
\* values of document.body.getBoundingClientRect().top
ScrollTops == { -200, -1, 0, 3 }
\* values of localStorage.getItem('theme'); "null" is the absent item
StoredThemes == { "null", "light", "dark", "auto" }

\* children of the carousel track explored (the page is written for five)
MaxSlides == 3
\* setInterval calls explored
MaxTimers == 4
\* nextSlide / prevSlide calls that pass the guard explored
MaxCalls == 3
\* values of window.innerWidth
InnerWidths == { 600, 900, 1400 }

\* scene.background before any colour is assigned (null)
NoObject == [id |-> 0, hex |-> -1]

----------------------------------------------------------------------------
(* Construction: lines 5-254 *)

Vec3(x, y, z) == [x |-> x, y |-> y, z |-> z]

\* new THREE.FogExp2(hex, 0.02)
FogExp2(id, hex) == [id |-> id, hex |-> hex, density |-> 2]

\* new THREE.Color(hex)
Color(id, hex) == [id |-> id, hex |-> hex]

\* this.colors of TechNetwork
colors == [dark |-> \H38bdf8, light |-> \H0ea5e9]

\* squared distance of two particle positions
Dist2(p, q) == (p[1] - q[1]) * (p[1] - q[1]) + (p[2] - q[2]) * (p[2] - q[2])
                 + (p[3] - q[3]) * (p[3] - q[3])

\* TechNetwork constructor with initParticles, for the drawn positions
initParticles(positions) ==
    [ rotation     |-> Vec3(0, 0, 0),
      positions    |-> positions,
      material     |-> [id |-> 2, hex |-> colors.dark, opacity |-> 60],
      linePos      |-> { <<i, j>> \in (1..Len(positions)) \X (1..Len(positions)) :
                           i < j /\ Dist2(positions[i], positions[j]) < 15 * 15 },
      lineMaterial |-> [id |-> 3, hex |-> colors.dark, opacity |-> 15] ]

\* IoTNexus.initMaterials
initMaterials ==
    [ core      |-> [id |-> 4, hex |-> \H0f172a, emissive |-> \H0ea5e9,
                     emissiveIntensity |-> 2, opacity |-> 100],
      wireframe |-> [id |-> 5, hex |-> \H38bdf8, emissive |-> -1,
                     emissiveIntensity |-> 0, opacity |-> 30],
      node      |-> [id |-> 6, hex |-> \H22d3ee, emissive |-> \H22d3ee,
                     emissiveIntensity |-> 20, opacity |-> 100],
      ring      |-> [id |-> 7, hex |-> \H94a3b8, emissive |-> -1,
                     emissiveIntensity |-> 0, opacity |-> 20] ]

\* the rot entries of ringGeoms
ringGeoms == << Vec3(15000, 5000, 0), Vec3(-5000, 8000, 0), Vec3(2000, -2000, 0) >>

\* IoTNexus constructor with buildModel, for the drawn ring speeds
buildModel(speeds) ==
    [ position  |-> Vec3(120000, 0, 0),
      rotation  |-> Vec3(0, 0, 0),
      materials |-> initMaterials,
      rings     |-> [ i \in 1..3 |->
                        [ rotation |-> ringGeoms[i],
                          material |-> 7,
                          nodeMaterial |-> 6,
                          userData |-> [ speedX |-> speeds[i].x,
                                         speedY |-> speeds[i].y,
                                         speedZ |-> speeds[i].z ] ] ] ]

\* the intensities given to the four lights
initLights == [ambient |-> 5, key |-> 20, rim |-> 20, fill |-> 10]

\* the carousel state of lines 454-457, with the given children of the track
CarouselDeclared(state, slides) ==
    /\ cpc = state
    /\ track = slides
    /\ trackStyle = [transition |-> "", transform |-> ""]
    /\ isTransitioning = FALSE
    /\ timers = [carouselInterval |-> 0, active |-> {}, nextId |-> 1]
    /\ timeouts = << >>
    /\ hovering = FALSE
    /\ carouselOp = "none"
    /\ accepted = [next |-> 0, prev |-> 0]

\* the typewriter state of lines 386-390
TypewriterDeclared(state) ==
    /\ tpc = state
    /\ phraseIndex = 0
    /\ charIndex = 0
    /\ isDeleting = FALSE
    /\ typeSpeed = 100
    /\ textContent = << >>
    /\ typePending = 0
    /\ typeLog = "none"

\* the scene as constructed, on a page with neither carousel nor typewriter
Init ==
    /\ CarouselDeclared("absent", << >>)
    /\ TypewriterDeclared("absent")
    /\ pc = "animate"
    /\ scene = [background |-> NoObject, fog |-> FogExp2(1, \H0b0f19)]
    /\ \E positions \in [1..ParticleBound -> ParticleCoords] :
           network = initParticles(positions)
    /\ \E speeds \in [1..3 -> RingSpeeds] : nexus = buildModel(speeds)
    /\ lights = initLights
    /\ camera = [y |-> 50000, orbitSteps |-> 0]
    /\ storage \in StoredThemes
    /\ dataTheme = "null"
    /\ themeSwitch \in { [present |-> TRUE, checked |-> FALSE],
                         [present |-> FALSE, checked |-> FALSE] }
    /\ rafPending = 0
    /\ heapNext = 8
    /\ frames = 0
    /\ frameLog = << >>
    /\ rendered = [network |-> Vec3(0, 0, 0), nexus |-> Vec3(0, 0, 0)]
    /\ themeLog = << >>
    /\ lastChecked = "none"
    /\ lastScroll = [seen |-> FALSE, t |-> 0]
    /\ lastOp = "construct"
    /\ built = [scene |-> scene, network |-> network, nexus |-> nexus,
                lights |-> lights]

----------------------------------------------------------------------------
(* Per-frame updates: lines 96-99, 199-209, 256-264 *)

\* faulty variant of TechNetwork.update: the particles drift upwards
TechNetwork_update_drift(net) ==
    [net EXCEPT !.rotation.y = @ + 5, !.rotation.x = @ + 2,
                !.positions = [ i \in 1..Len(net.positions) |->
                    << net.positions[i][1], net.positions[i][2] + 1,
                       net.positions[i][3] >> ] ]

\* TechNetwork.update
TechNetwork_update(net) ==
    [net EXCEPT !.rotation.y = @ + 5, !.rotation.x = @ + 2]

\* faulty variant of IoTNexus.update: every ring spins at the first ring's speed
IoTNexus_update_sharedSpeed(nx) ==
    [nx EXCEPT !.rotation.y = @ + 20,
               !.rings = [ i \in 1..3 |->
                   [ nx.rings[i] EXCEPT
                       !.rotation.x = @ + nx.rings[1].userData.speedX,
                       !.rotation.y = @ + nx.rings[1].userData.speedY,
                       !.rotation.z = @ + nx.rings[1].userData.speedZ ] ] ]

\* faulty variant of IoTNexus.update: the group's rotation is set anew each
\* frame, which drops the tilt given by the scroll handler
IoTNexus_update_resetsTilt(nx) ==
    [nx EXCEPT !.rotation = Vec3(0, nx.rotation.y + 20, 0),
               !.rings = [ i \in 1..3 |->
                   [ nx.rings[i] EXCEPT
                       !.rotation.x = @ + nx.rings[i].userData.speedX,
                       !.rotation.y = @ + nx.rings[i].userData.speedY,
                       !.rotation.z = @ + nx.rings[i].userData.speedZ ] ] ]

\* IoTNexus.update
IoTNexus_update(nx) ==
    [nx EXCEPT !.rotation.y = @ + 20,
               !.rings = [ i \in 1..3 |->
                   [ nx.rings[i] EXCEPT
                       !.rotation.x = @ + nx.rings[i].userData.speedX,
                       !.rotation.y = @ + nx.rings[i].userData.speedY,
                       !.rotation.z = @ + nx.rings[i].userData.speedZ ] ] ]

\* controls.update() of the auto-rotating OrbitControls: orbits the camera
\* about the vertical axis, keeping its height
controls_update(cam) == [cam EXCEPT !.orbitSteps = @ + 1]

\* renderer.render(scene, camera): what is drawn of the two groups
render(net, nx) == [network |-> net.rotation, nexus |-> nx.rotation]

\* faulty variant of animate: the next frame is requested twice
animate_twice(queued) ==
    LET net == TechNetwork_update(network)
        nx  == IoTNexus_update(nexus)
    IN  /\ rafPending' = queued + 2
        /\ network' = net
        /\ nexus' = nx
        /\ camera' = controls_update(camera)
        /\ rendered' = render(net, nx)
        /\ frameLog' = << "requestAnimationFrame", "network.update",
                          "nexus.update", "controls.update", "render",
                          "requestAnimationFrame" >>
        /\ frames' = frames + 1

\* animate(), run with `queued` callbacks still in the frame queue
animate(queued) ==
    LET net == TechNetwork_update(network)
        nx  == IoTNexus_update(nexus)
    IN  /\ rafPending' = queued + 1
        /\ network' = net
        /\ nexus' = nx
        /\ camera' = controls_update(camera)
        /\ rendered' = render(net, nx)
        /\ frameLog' = << "requestAnimationFrame", "network.update",
                          "nexus.update", "controls.update", "render" >>
        /\ frames' = frames + 1

----------------------------------------------------------------------------
(* Scroll interaction: lines 268-278 *)

\* faulty variant of onScroll: the offset turns the group about y, not x
onScroll_yaw(t) ==
    /\ nexus' = [nexus EXCEPT !.rotation.y = t * 5, !.position.z = t * 50]
    /\ camera' = [camera EXCEPT !.y = 50000 + t * (-20)]
    /\ lastScroll' = [seen |-> TRUE, t |-> t]

\* onScroll, with t the top of the body's bounding rectangle
onScroll(t) ==
    /\ nexus' = [nexus EXCEPT !.rotation.x = t * 5, !.position.z = t * 50]
    /\ camera' = [camera EXCEPT !.y = 50000 + t * (-20)]
    /\ lastScroll' = [seen |-> TRUE, t |-> t]

----------------------------------------------------------------------------
(* Theme handling: lines 101-106, 211-227, 281-329 *)

\* faulty variant of TechNetwork.setTheme: the light theme raises the line
\* opacity by 0.05 instead of setting it to 0.2
TechNetwork_setTheme_relative(net, isLight) ==
    LET color == IF isLight THEN colors.light ELSE colors.dark
    IN  [net EXCEPT !.material.hex = color,
                    !.lineMaterial.hex = color,
                    !.lineMaterial.opacity = IF isLight THEN @ + 5 ELSE 15]

\* TechNetwork.setTheme
TechNetwork_setTheme(net, isLight) ==
    LET color == IF isLight THEN colors.light ELSE colors.dark
    IN  [net EXCEPT !.material.hex = color,
                    !.lineMaterial.hex = color,
                    !.lineMaterial.opacity = IF isLight THEN 20 ELSE 15]

\* faulty variant of IoTNexus.setTheme: the dark branch does not reset the
\* wireframe colour
IoTNexus_setTheme_keepsWireframe(nx, isLight) ==
    IF isLight
    THEN [nx EXCEPT !.materials.core.hex = \Hf1f5f9,
                    !.materials.core.emissive = \H0ea5e9,
                    !.materials.wireframe.hex = \H0284c7,
                    !.materials.node.hex = \H0ea5e9,
                    !.materials.node.emissive = \H0ea5e9,
                    !.materials.ring.hex = \H64748b]
    ELSE [nx EXCEPT !.materials.core.hex = \H0f172a,
                    !.materials.core.emissive = \H0ea5e9,
                    !.materials.node.hex = \H22d3ee,
                    !.materials.node.emissive = \H22d3ee,
                    !.materials.ring.hex = \H94a3b8]

\* IoTNexus.setTheme
IoTNexus_setTheme(nx, isLight) ==
    IF isLight
    THEN [nx EXCEPT !.materials.core.hex = \Hf1f5f9,
                    !.materials.core.emissive = \H0ea5e9,
                    !.materials.wireframe.hex = \H0284c7,
                    !.materials.node.hex = \H0ea5e9,
                    !.materials.node.emissive = \H0ea5e9,
                    !.materials.ring.hex = \H64748b]
    ELSE [nx EXCEPT !.materials.core.hex = \H0f172a,
                    !.materials.core.emissive = \H0ea5e9,
                    !.materials.wireframe.hex = \H38bdf8,
                    !.materials.node.hex = \H22d3ee,
                    !.materials.node.emissive = \H22d3ee,
                    !.materials.ring.hex = \H94a3b8]

\* faulty variant of updateTheme: the network is not re-skinned
updateTheme_skipsNetwork(isLight) ==
    LET bgHex == IF isLight THEN \Hf0f4f8 ELSE \H0b0f19
    IN  /\ scene' = [background |-> Color(heapNext, bgHex),
                     fog |-> FogExp2(heapNext + 1, bgHex)]
        /\ heapNext' = heapNext + 2
        /\ network' = network
        /\ nexus' = IoTNexus_setTheme(nexus, isLight)
        /\ lights' = IF isLight
                     THEN [lights EXCEPT !.ambient = 10, !.key = 15, !.rim = 10]
                     ELSE [lights EXCEPT !.ambient = 5, !.key = 20, !.rim = 20]
        /\ themeLog' = Append(themeLog, isLight)

\* faulty variant of updateTheme: the ring material is replaced by a new one
updateTheme_newMaterial(isLight) ==
    LET bgHex == IF isLight THEN \Hf0f4f8 ELSE \H0b0f19
    IN  /\ scene' = [background |-> Color(heapNext, bgHex),
                     fog |-> FogExp2(heapNext + 1, bgHex)]
        /\ heapNext' = heapNext + 3
        /\ network' = TechNetwork_setTheme(network, isLight)
        /\ nexus' = [IoTNexus_setTheme(nexus, isLight) EXCEPT
                        !.materials.ring.id = heapNext + 2]
        /\ lights' = IF isLight
                     THEN [lights EXCEPT !.ambient = 10, !.key = 15, !.rim = 10]
                     ELSE [lights EXCEPT !.ambient = 5, !.key = 20, !.rim = 20]
        /\ themeLog' = Append(themeLog, isLight)

\* updateTheme
updateTheme(isLight) ==
    LET bgHex == IF isLight THEN \Hf0f4f8 ELSE \H0b0f19
    IN  /\ scene' = [background |-> Color(heapNext, bgHex),
                     fog |-> FogExp2(heapNext + 1, bgHex)]
        /\ heapNext' = heapNext + 2
        /\ network' = TechNetwork_setTheme(network, isLight)
        /\ nexus' = IoTNexus_setTheme(nexus, isLight)
        /\ lights' = IF isLight
                     THEN [lights EXCEPT !.ambient = 10, !.key = 15, !.rim = 10]
                     ELSE [lights EXCEPT !.ambient = 5, !.key = 20, !.rim = 20]
        /\ themeLog' = Append(themeLog, isLight)

\* faulty variant of the test of line 309: light unless 'dark' is stored
storedIsLight_unlessDark(item) == item # "dark"

\* the test of line 309 on the stored item
storedIsLight(item) == item = "light"

\* the initial theme check of the module script, lines 309-315
InitialThemeCheck ==
    IF storedIsLight(storage)
    THEN /\ dataTheme' = "light"
         /\ themeSwitch' = IF themeSwitch.present
                           THEN [themeSwitch EXCEPT !.checked = TRUE]
                           ELSE themeSwitch
         /\ updateTheme(TRUE)
    ELSE /\ updateTheme(FALSE)
         /\ UNCHANGED <<dataTheme, themeSwitch>>

\* faulty variant of the change listener: the dark choice is not stored
themeSwitch_change_darkNotStored(checked) ==
    IF checked
    THEN /\ dataTheme' = "light"
         /\ storage' = "light"
         /\ updateTheme(TRUE)
    ELSE /\ dataTheme' = "null"
         /\ storage' = storage
         /\ updateTheme(FALSE)

\* the change listener of the theme switch, lines 318-328
themeSwitch_change(checked) ==
    IF checked
    THEN /\ dataTheme' = "light"
         /\ storage' = "light"
         /\ updateTheme(TRUE)
    ELSE /\ dataTheme' = "null"
         /\ storage' = "dark"
         /\ updateTheme(FALSE)

----------------------------------------------------------------------------
(* The module script and the event loop *)

\* line 265: the script's own call of animate()
ScriptAnimate ==
    /\ pc = "animate"
    /\ animate(rafPending)
    /\ pc' = "theme"
    /\ lastOp' = "script"
    /\ UNCHANGED <<scene, lights, storage, dataTheme, themeSwitch, heapNext,
                   themeLog, lastChecked, lastScroll, built>>
    /\ UNCHANGED <<carouselVars, typeVars>>

\* lines 305-329: the initial theme check; the script then ends and the
\* page's handlers start to run
ScriptTheme ==
    /\ pc = "theme"
    /\ InitialThemeCheck
    /\ pc' = "running"
    /\ lastOp' = "script"
    /\ UNCHANGED <<camera, storage, rafPending, frames, frameLog, rendered,
                   lastChecked, lastScroll, built>>
    /\ UNCHANGED <<carouselVars, typeVars>>

\* a display refresh runs the queued animate callback
Frame ==
    /\ pc = "running"
    /\ rafPending > 0
    /\ frames < MaxFrames
    /\ animate(rafPending - 1)
    /\ lastOp' = "frame"
    /\ UNCHANGED <<pc, scene, lights, storage, dataTheme, themeSwitch, heapNext,
                   themeLog, lastChecked, lastScroll, built>>
    /\ UNCHANGED <<carouselVars, typeVars>>

\* a scroll event of the body
Scroll ==
    /\ pc = "running"
    /\ \E t \in ScrollTops : onScroll(t)
    /\ lastOp' = "scroll"
    /\ UNCHANGED <<pc, scene, network, lights, storage, dataTheme, themeSwitch,
                   rafPending, heapNext, frames, frameLog, rendered, themeLog,
                   lastChecked, built>>
    /\ UNCHANGED <<carouselVars, typeVars>>

\* a change event of the theme switch
ThemeChange ==
    /\ pc = "running"
    /\ themeSwitch.present
    /\ Len(themeLog) < MaxThemeCalls
    /\ \E checked \in BOOLEAN :
          /\ themeSwitch' = [themeSwitch EXCEPT !.checked = checked]
          /\ themeSwitch_change(checked)
          /\ lastChecked' = IF checked THEN "checked" ELSE "unchecked"
    /\ lastOp' = "change"
    /\ UNCHANGED <<pc, camera, rafPending, frames, frameLog, rendered,
                   lastScroll, built>>
    /\ UNCHANGED <<carouselVars, typeVars>>

Next == ScriptAnimate \/ ScriptTheme \/ Frame \/ Scroll \/ ThemeChange

Spec == Init /\ [][Next]_vars

\* the scene held in one constructed state, for the specifications of the
\* carousel and of the typewriter
SceneHeld ==
    /\ pc = "held"
    /\ scene = [background |-> NoObject, fog |-> FogExp2(1, \H0b0f19)]
    /\ network = initParticles([i \in 1..ParticleBound |-> <<-50, -30, -30>>])
    /\ nexus = buildModel([i \in 1..3 |-> [x |-> 99, y |-> -1, z |-> 0]])
    /\ lights = initLights
    /\ camera = [y |-> 50000, orbitSteps |-> 0]
    /\ storage = "null"
    /\ dataTheme = "null"
    /\ themeSwitch = [present |-> FALSE, checked |-> FALSE]
    /\ rafPending = 0
    /\ heapNext = 8
    /\ frames = 0
    /\ frameLog = << >>
    /\ rendered = [network |-> Vec3(0, 0, 0), nexus |-> Vec3(0, 0, 0)]
    /\ themeLog = << >>
    /\ lastChecked = "none"
    /\ lastScroll = [seen |-> FALSE, t |-> 0]
    /\ lastOp = "construct"
    /\ built = [scene |-> scene, network |-> network, nexus |-> nexus,
                lights |-> lights]

----------------------------------------------------------------------------
(* The carousel: lines 452-546 *)

\* getVisibleCount, for window.innerWidth = width
getVisibleCount(width) ==
    IF width <= 768 THEN 1 ELSE IF width <= 1024 THEN 2 ELSE 3

\* `translateX(-${slideWidthPct}%)` with slideWidthPct = 100 / visibleCount
translateX(visibleCount) ==
    CASE visibleCount = 1 -> "translateX(-100%)"
      [] visibleCount = 2 -> "translateX(-50%)"
      [] visibleCount = 3 -> "translateX(-33.333333333333336%)"

\* trackfull.appendChild(trackfull.firstElementChild)
appendFirst(children) == Append(Tail(children), Head(children))

\* trackfull.insertBefore(trackfull.lastElementChild, trackfull.firstElementChild)
insertLastFirst(children) ==
    <<children[Len(children)]>> \o SubSeq(children, 1, Len(children) - 1)

\* faulty variant of nextSlide: the isTransitioning guard is missing
nextSlide_unguarded(width) ==
    /\ isTransitioning' = TRUE
    /\ trackStyle' = [transition |-> "transform 0.5s ease-in-out",
                      transform |-> translateX(getVisibleCount(width))]
    /\ timeouts' = Append(timeouts, [fn |-> "nextSlide.moved", delay |-> 500])
    /\ accepted' = [accepted EXCEPT !.next = @ + 1]
    /\ track' = track

\* nextSlide, lines 465-474 (its timeouts are nextSlide_moved and unlock)
nextSlide(width) ==
    IF isTransitioning
    THEN UNCHANGED <<track, trackStyle, isTransitioning, timeouts, accepted>>
    ELSE /\ isTransitioning' = TRUE
         /\ trackStyle' = [transition |-> "transform 0.5s ease-in-out",
                           transform |-> translateX(getVisibleCount(width))]
         /\ timeouts' = Append(timeouts, [fn |-> "nextSlide.moved", delay |-> 500])
         /\ accepted' = [accepted EXCEPT !.next = @ + 1]
         /\ track' = track

\* faulty variant of the outer timeout of nextSlide: the inner timeout that
\* resets isTransitioning is not set
nextSlide_moved_noUnlock(rest) ==
    /\ trackStyle' = [transition |-> "none", transform |-> "translateX(0)"]
    /\ track' = appendFirst(track)
    /\ timeouts' = rest
    /\ UNCHANGED isTransitioning

\* the outer timeout of nextSlide, lines 475-485, with the other timeouts left
nextSlide_moved(rest) ==
    /\ trackStyle' = [transition |-> "none", transform |-> "translateX(0)"]
    /\ track' = appendFirst(track)
    /\ timeouts' = Append(rest, [fn |-> "unlock", delay |-> 50])
    /\ UNCHANGED isTransitioning

\* prevSlide, lines 488-499 (its timeouts are prevSlide_settled and unlock)
prevSlide(width) ==
    IF isTransitioning
    THEN UNCHANGED <<track, trackStyle, isTransitioning, timeouts, accepted>>
    ELSE /\ isTransitioning' = TRUE
         /\ track' = insertLastFirst(track)
         /\ trackStyle' = [transition |-> "none",
                           transform |-> translateX(getVisibleCount(width))]
         /\ timeouts' = Append(timeouts, [fn |-> "prevSlide.settled", delay |-> 50])
         /\ accepted' = [accepted EXCEPT !.prev = @ + 1]

\* the outer timeout of prevSlide, lines 500-507, with the other timeouts left
prevSlide_settled(rest) ==
    /\ trackStyle' = [transition |-> "transform 0.5s ease-in-out",
                      transform |-> "translateX(0)"]
    /\ timeouts' = Append(rest, [fn |-> "unlock", delay |-> 500])
    /\ UNCHANGED <<track, isTransitioning>>

\* the inner timeouts, lines 482-484 and 504-506, with the other timeouts left
unlock(rest) ==
    /\ isTransitioning' = FALSE
    /\ timeouts' = rest
    /\ UNCHANGED <<track, trackStyle>>

\* clearInterval(id) on the timer state
clearInterval(tm, id) == [tm EXCEPT !.active = @ \ {id}]

\* startInterval
startInterval(tm) ==
    [tm EXCEPT !.active = @ \cup {tm.nextId},
               !.carouselInterval = tm.nextId,
               !.nextId = @ + 1]

\* resetInterval
resetInterval(tm) == startInterval(clearInterval(tm, tm.carouselInterval))

\* the mouseenter listener, lines 532-534
onMouseEnter(tm) == clearInterval(tm, tm.carouselInterval)

\* the mouseleave listener, lines 536-538
onMouseLeave(tm) == startInterval(tm)

\* the sequence s without its i-th element
Without(s, i) == SubSeq(s, 1, i - 1) \o SubSeq(s, i + 1, Len(s))

\* a further call may pass the guard of nextSlide / prevSlide
CallsLeft == isTransitioning \/ accepted.next + accepted.prev < MaxCalls

\* the state after the declarations of lines 454-457, for a track with
\* at least one slide
CarouselInit ==
    /\ SceneHeld
    /\ TypewriterDeclared("absent")
    /\ \E n \in 1..MaxSlides : CarouselDeclared("script", [i \in 1..n |-> i])

\* lines 521-545: the listeners are registered and auto play starts
CarouselStart ==
    /\ cpc = "script"
    /\ cpc' = "running"
    /\ timers' = startInterval(timers)
    /\ carouselOp' = "start"
    /\ UNCHANGED <<track, trackStyle, isTransitioning, timeouts, hovering, accepted>>
    /\ UNCHANGED <<sceneVars, typeVars>>

\* click on .next-btn, lines 521-524
ClickNext ==
    /\ cpc = "running"
    /\ CallsLeft
    /\ timers.nextId <= MaxTimers
    /\ \E width \in InnerWidths : nextSlide(width)
    /\ timers' = resetInterval(timers)
    /\ carouselOp' = "next"
    /\ UNCHANGED <<cpc, hovering>>
    /\ UNCHANGED <<sceneVars, typeVars>>

\* click on .prev-btn, lines 526-529
ClickPrev ==
    /\ cpc = "running"
    /\ CallsLeft
    /\ timers.nextId <= MaxTimers
    /\ \E width \in InnerWidths : prevSlide(width)
    /\ timers' = resetInterval(timers)
    /\ carouselOp' = "prev"
    /\ UNCHANGED <<cpc, hovering>>
    /\ UNCHANGED <<sceneVars, typeVars>>

\* the pointer enters .carousel-container-full
MouseEnter ==
    /\ cpc = "running"
    /\ ~hovering
    /\ hovering' = TRUE
    /\ timers' = onMouseEnter(timers)
    /\ carouselOp' = "mouseenter"
    /\ UNCHANGED <<cpc, track, trackStyle, isTransitioning, timeouts, accepted>>
    /\ UNCHANGED <<sceneVars, typeVars>>

\* the pointer leaves .carousel-container-full
MouseLeave ==
    /\ cpc = "running"
    /\ hovering
    /\ timers.nextId <= MaxTimers
    /\ hovering' = FALSE
    /\ timers' = onMouseLeave(timers)
    /\ carouselOp' = "mouseleave"
    /\ UNCHANGED <<cpc, track, trackStyle, isTransitioning, timeouts, accepted>>
    /\ UNCHANGED <<sceneVars, typeVars>>

\* an interval timer that is still set fires: setInterval(nextSlide, intervalTime)
IntervalTick ==
    /\ cpc = "running"
    /\ CallsLeft
    /\ timers.active # {}
    /\ \E width \in InnerWidths : nextSlide(width)
    /\ carouselOp' = "tick"
    /\ UNCHANGED <<cpc, timers, hovering>>
    /\ UNCHANGED <<sceneVars, typeVars>>

\* a queued timeout runs
TimeoutFires ==
    /\ cpc = "running"
    /\ \E i \in 1..Len(timeouts) :
          CASE timeouts[i].fn = "nextSlide.moved" -> nextSlide_moved(Without(timeouts, i))
            [] timeouts[i].fn = "prevSlide.settled" -> prevSlide_settled(Without(timeouts, i))
            [] timeouts[i].fn = "unlock" -> unlock(Without(timeouts, i))
    /\ carouselOp' = "timeout"
    /\ UNCHANGED <<cpc, timers, hovering, accepted>>
    /\ UNCHANGED <<sceneVars, typeVars>>

CarouselNext ==
    CarouselStart \/ ClickNext \/ ClickPrev \/ MouseEnter \/ MouseLeave
        \/ IntervalTick \/ TimeoutFires

CarouselSpec == CarouselInit /\ [][CarouselNext]_vars

\* the browser runs every queued timeout once it is due
CarouselFairSpec == CarouselSpec /\ WF_vars(TimeoutFires)

----------------------------------------------------------------------------
(* Observations used by the properties *)

\* every value updateTheme and the two setTheme methods write
ThemedValues ==
    [ background      |-> scene.background.hex,
      fog             |-> scene.fog.hex,
      pointColor      |-> network.material.hex,
      lineColor       |-> network.lineMaterial.hex,
      lineOpacity     |-> network.lineMaterial.opacity,
      coreColor       |-> nexus.materials.core.hex,
      coreEmissive    |-> nexus.materials.core.emissive,
      wireframeColor  |-> nexus.materials.wireframe.hex,
      nodeColor       |-> nexus.materials.node.hex,
      nodeEmissive    |-> nexus.materials.node.emissive,
      ringColor       |-> nexus.materials.ring.hex,
      ambient         |-> lights.ambient,
      key             |-> lights.key,
      rim             |-> lights.rim ]

\* the light and the dark table: the values lines 283, 102-105, 212-226 and
\* 294-302 give for isLight
Palette(isLight) ==
    IF isLight
    THEN [ background |-> \Hf0f4f8, fog |-> \Hf0f4f8,
           pointColor |-> \H0ea5e9, lineColor |-> \H0ea5e9, lineOpacity |-> 20,
           coreColor |-> \Hf1f5f9, coreEmissive |-> \H0ea5e9,
           wireframeColor |-> \H0284c7,
           nodeColor |-> \H0ea5e9, nodeEmissive |-> \H0ea5e9,
           ringColor |-> \H64748b,
           ambient |-> 10, key |-> 15, rim |-> 10 ]
    ELSE [ background |-> \H0b0f19, fog |-> \H0b0f19,
           pointColor |-> \H38bdf8, lineColor |-> \H38bdf8, lineOpacity |-> 15,
           coreColor |-> \H0f172a, coreEmissive |-> \H0ea5e9,
           wireframeColor |-> \H38bdf8,
           nodeColor |-> \H22d3ee, nodeEmissive |-> \H22d3ee,
           ringColor |-> \H94a3b8,
           ambient |-> 5, key |-> 20, rim |-> 20 ]

\* the argument of the latest updateTheme call, and of the one before it
LastTheme == themeLog[Len(themeLog)]
PrevTheme == themeLog[Len(themeLog) - 1]

----------------------------------------------------------------------------
(* Properties *)

\* C1: updateTheme is idempotent.  A call of updateTheme(isLight) that
\* follows a call with the same isLight leaves every themed value
\* (background, fog, network colours and line opacity, nexus colours and
\* emissive colours, ambient/key/rim intensities) as the first call left it.
C1_UpdateThemeIdempotent ==
    [][ ( /\ Len(themeLog) >= 1
          /\ Len(themeLog') = Len(themeLog) + 1
          /\ themeLog'[Len(themeLog')] = LastTheme )
        => ThemedValues' = ThemedValues ]_vars

\* C1 witness: updateTheme(true) has run twice in a row
C1_Witness ==
    /\ Len(themeLog) >= 2
    /\ LastTheme = TRUE
    /\ PrevTheme = TRUE
    /\ lastOp = "change"

\* C2: updateTheme(true) followed by updateTheme(false) restores the nexus
\* materials, the network colours and line opacity, the fog colour and the
\* ambient/key/rim intensities to the values assigned at construction.
C2_LightThenDarkRestores ==
    ( /\ Len(themeLog) >= 2
      /\ PrevTheme = TRUE
      /\ LastTheme = FALSE )
    => /\ nexus.materials = built.nexus.materials
       /\ network.material = built.network.material
       /\ network.lineMaterial = built.network.lineMaterial
       /\ scene.fog.hex = built.scene.fog.hex
       /\ lights = built.lights

\* C2 witness: the dark theme was applied right after the light theme
C2_Witness ==
    /\ Len(themeLog) >= 2
    /\ PrevTheme = TRUE
    /\ LastTheme = FALSE
    /\ scene.fog.hex = \H0b0f19
    /\ scene.fog.id # built.scene.fog.id

\* C3: between handler runs the themed values are those of exactly one
\* table, the light one or the dark one, never a mix of the two.
C3_OneThemeActive ==
    pc = "running" => \E isLight \in BOOLEAN : ThemedValues = Palette(isLight)

\* C3 witness: after theme changes, frames and a scroll event the light
\* table is active
C3_Witness ==
    /\ pc = "running"
    /\ Len(themeLog) >= 3
    /\ frames >= 2
    /\ lastScroll.seen
    /\ ThemedValues = Palette(TRUE)

\* C4: when the module script has ended, the light theme has been applied
\* if and only if the stored 'theme' item is 'light'; for an absent item or
\* any other value the dark theme has been applied.
C4_StartupTheme ==
    (pc = "running" /\ lastOp = "script")
    => /\ themeLog = << (storage = "light") >>
       /\ ThemedValues = Palette(storage = "light")

\* C4 witness: a stored value that is neither 'light' nor 'dark' gave dark
C4_Witness ==
    /\ pc = "running"
    /\ lastOp = "script"
    /\ storage = "auto"
    /\ ThemedValues = Palette(FALSE)

\* C5: after a change event of the theme switch, the stored item, the
\* data-theme attribute of the body and the scene palette all denote the
\* theme of the last change event, and the startup test on the stored item
\* selects that theme again.
C5_PreferenceRoundTrip ==
    lastChecked # "none" =>
        LET isLight == (lastChecked = "checked")
        IN  /\ storage = IF isLight THEN "light" ELSE "dark"
            /\ dataTheme = IF isLight THEN "light" ELSE "null"
            /\ ThemedValues = Palette(isLight)
            /\ storedIsLight(storage) = isLight

\* C5 witness: the switch was checked and then unchecked, frames ran since
C5_Witness ==
    /\ lastChecked = "unchecked"
    /\ Len(themeLog) >= 3
    /\ PrevTheme = TRUE
    /\ storage = "dark"
    /\ lastOp = "frame"

\* the calls of the last animate() run that C6 is about, in the order made
FrameCalls ==
    SelectSeq(frameLog, LAMBDA c : c \in {"network.update", "nexus.update", "render"})

\* C6: the animator never overlaps itself.  Once the script has ended at
\* most one animate callback is pending, and every animate run has made one
\* network.update, one nexus.update and one render, in that order: the two
\* groups have been advanced once per run and the render drew the advanced
\* rotations.
C6_OneAnimatePerRefresh ==
    pc = "running" =>
        /\ rafPending <= 1
        /\ FrameCalls = << "network.update", "nexus.update", "render" >>
        /\ network.rotation.y = frames * 5
        /\ nexus.rotation.y = frames * 20
        /\ lastOp = "frame" => /\ rendered.network = network.rotation
                               /\ rendered.nexus = nexus.rotation

\* C6 witness: several refreshes have run and one callback is pending
C6_Witness ==
    /\ pc = "running"
    /\ lastOp = "frame"
    /\ frames >= 3
    /\ rafPending = 1

\* v = t * k for some real constant k
Proportional(v, t) == t # 0 \/ v = 0

\* C7 as stated: right after a scroll event with offset t the nexus group
\* has rotation.y = t * k1 and rotation.z = baseZ + t * k2.  This is the
\* weakest reading, with k1 and k2 free to differ from state to state.
C7_Original ==
    lastOp = "scroll" =>
        /\ Proportional(nexus.rotation.y, lastScroll.t)
        /\ Proportional(nexus.rotation.z - built.nexus.rotation.z, lastScroll.t)

\* C7 amended: the scroll offset t of the last scroll event sets the nexus
\* group's rotation.x = 0.0005 * t and position.z = 0.005 * t.  rotation.y
\* and rotation.z do not depend on it: rotation.y is 0.002 times the number
\* of animate runs and rotation.z keeps its construction value.
C7_ScrollDrivesRotationXPositionZ ==
    /\ lastScroll.seen => /\ nexus.rotation.x = lastScroll.t * 5
                          /\ nexus.position.z = lastScroll.t * 50
    /\ nexus.rotation.y = frames * 20
    /\ nexus.rotation.z = built.nexus.rotation.z

\* C7 witness: a scroll event with a non-zero offset has just run, after
\* at least two animate runs
C7_Witness ==
    /\ lastOp = "scroll"
    /\ lastScroll.t = -200
    /\ frames >= 2
    /\ nexus.rotation.x = -1000
    /\ nexus.position.z = -10000

\* C8: each ring spins with its own fixed speed.  On every axis a ring's
\* rotation is its construction rotation plus the number of animate runs
\* times the speed drawn for it at construction, and its stored speed is
\* still the one drawn at construction.
C8_RingsSpinIndependently ==
    \A i \in 1..3 :
        LET ring == nexus.rings[i]
            made == built.nexus.rings[i]
        IN  /\ ring.userData = made.userData
            /\ ring.rotation.x = made.rotation.x + frames * made.userData.speedX
            /\ ring.rotation.y = made.rotation.y + frames * made.userData.speedY
            /\ ring.rotation.z = made.rotation.z + frames * made.userData.speedZ

\* C8 witness: rings with different speeds after frames, a scroll event and
\* a theme change
C8_Witness ==
    /\ frames >= 3
    /\ lastScroll.seen
    /\ lastChecked # "none"
    /\ nexus.rings[1].userData # nexus.rings[2].userData
    /\ nexus.rings[1].rotation.x # built.nexus.rings[1].rotation.x

\* the identities of the six material objects
MaterialIds ==
    << network.material.id, network.lineMaterial.id,
       nexus.materials.core.id, nexus.materials.wireframe.id,
       nexus.materials.node.id, nexus.materials.ring.id >>

\* what a re-skin must leave alone in the two groups
Unthemed ==
    [ networkRotation |-> network.rotation,
      positions       |-> network.positions,
      linePos         |-> network.linePos,
      nexusRotation   |-> nexus.rotation,
      nexusPosition   |-> nexus.position,
      rings           |-> nexus.rings,
      opacity         |-> [ m \in {"core", "wireframe", "node", "ring"} |->
                              nexus.materials[m].opacity ],
      emissiveIntensity |-> [ m \in {"core", "wireframe", "node", "ring"} |->
                              nexus.materials[m].emissiveIntensity ] ]

\* C9: a re-skin changes palette values only.  A step that runs updateTheme
\* leaves the identity of every material object unchanged and allocates
\* none (the two objects it allocates are the background colour and the
\* fog), and leaves unchanged every group and ring rotation and position,
\* every ring speed, every particle position and the opacity and emissive
\* intensity of the nexus materials.
C9_ReskinFrame ==
    [][ themeLog' # themeLog =>
          /\ MaterialIds' = MaterialIds
          /\ heapNext' = heapNext + 2
          /\ {scene'.background.id, scene'.fog.id} = {heapNext, heapNext + 1}
          /\ Unthemed' = Unthemed ]_vars

\* C9 witness: the light theme was applied by a change event after the
\* groups had been moved by frames and a scroll event
C9_Witness ==
    /\ lastOp = "change"
    /\ LastTheme = TRUE
    /\ PrevTheme = FALSE
    /\ frames >= 2
    /\ lastScroll.seen
    /\ lastScroll.t # 0

\* C10: an animate run leaves every particle's position (its entry of the
\* position attribute, in the frame of the network group) equal to the
\* position it was created with, and so does every later frame, scroll
\* event and theme change.
C10_ParticlesKeepBasePosition ==
    /\ network.positions = built.network.positions
    /\ network.linePos = built.network.linePos

\* C10 witness: frames, a scroll event and a theme change have run
C10_Witness ==
    /\ frames >= 1
    /\ lastScroll.seen
    /\ lastChecked # "none"
    /\ network.rotation # built.network.rotation
    /\ Len(network.positions) = ParticleBound

\* C11: scroll-driven and frame-driven transforms of the nexus group do not
\* interfere.  A scroll event with offset t sets rotation.x = 0.0005 * t and
\* position.z = 0.005 * t whatever earlier scroll events set, and changes
\* nothing else of the nexus; an animate run adds 0.002 to rotation.y and
\* leaves rotation.x, rotation.z and the position alone.  So after any
\* interleaving rotation.x and position.z are those of the last scroll
\* event and rotation.y is 0.002 times the number of animate runs.
C11_ScrollAndFramesIndependent ==
    [][ /\ lastOp' = "scroll" =>
              nexus' = [nexus EXCEPT !.rotation.x = lastScroll'.t * 5,
                                     !.position.z = lastScroll'.t * 50]
        /\ frames' = frames + 1 =>
              /\ nexus'.rotation.y = nexus.rotation.y + 20
              /\ nexus'.rotation.x = nexus.rotation.x
              /\ nexus'.rotation.z = nexus.rotation.z
              /\ nexus'.position = nexus.position
        /\ lastScroll'.seen =>
              /\ nexus'.rotation.x = lastScroll'.t * 5
              /\ nexus'.position.z = lastScroll'.t * 50
        /\ nexus'.rotation.y = frames' * 20 ]_vars

\* C11 witness: an animate run has just followed a scroll event with a
\* large offset, which followed earlier animate runs
C11_Witness ==
    /\ lastOp = "frame"
    /\ frames >= 3
    /\ lastScroll.seen
    /\ lastScroll.t = -200
    /\ nexus.rotation.x = -1000
    /\ nexus.position.z = -10000
    /\ nexus.rotation.y = 60

----------------------------------------------------------------------------
(* The typewriter: lines 384-419 *)

\* phrases, each as the sequence of its characters
phrases ==
    << << "(", " ", "I", "o", "T", " ", "S", "p", "e", "c", "i", "a", "l", "i",
          "s", "t", " ", ")" >>,
       << "(", " ", "R", "o", "b", "o", "t", "i", "c", "s", " ", "E", "n", "g",
          "i", "n", "e", "e", "r", " ", ")" >>,
       << "(", " ", "F", "i", "r", "m", "w", "a", "r", "e", " ", "D", "e", "v",
          "e", "l", "o", "p", "e", "r", " ", ")" >> >>

\* str.substring(0, end): end is clamped to 0..str.length
substring0(str, end) ==
    SubSeq(str, 1, IF end < 0 THEN 0 ELSE IF end > Len(str) THEN Len(str) ELSE end)

\* faulty variant of type: the deleting branch shows charIndex characters,
\* one more than it counts
type_staleText(queued) ==
    LET currentPhrase == phrases[phraseIndex + 1]
        index == IF isDeleting THEN charIndex - 1 ELSE charIndex + 1
    IN  /\ textContent' = IF isDeleting
                          THEN substring0(currentPhrase, charIndex)
                          ELSE substring0(currentPhrase, charIndex + 1)
        /\ charIndex' = index
        /\ typeLog' = IF isDeleting THEN "deleted" ELSE "typed"
        /\ IF ~isDeleting /\ index = Len(currentPhrase)
           THEN isDeleting' = TRUE /\ typeSpeed' = 2000
                /\ phraseIndex' = phraseIndex
           ELSE IF isDeleting /\ index = 0
           THEN isDeleting' = FALSE /\ typeSpeed' = 500
                /\ phraseIndex' = (phraseIndex + 1) % Len(phrases)
           ELSE /\ typeSpeed' = IF isDeleting THEN 50 ELSE 100
                /\ UNCHANGED <<isDeleting, phraseIndex>>
        /\ typePending' = queued + 1

\* faulty variant of type: the phrase index wraps one phrase early
type_wrapsEarly(queued) ==
    LET currentPhrase == phrases[phraseIndex + 1]
        index == IF isDeleting THEN charIndex - 1 ELSE charIndex + 1
    IN  /\ textContent' = IF isDeleting
                          THEN substring0(currentPhrase, charIndex - 1)
                          ELSE substring0(currentPhrase, charIndex + 1)
        /\ charIndex' = index
        /\ typeLog' = IF isDeleting THEN "deleted" ELSE "typed"
        /\ IF ~isDeleting /\ index = Len(currentPhrase)
           THEN isDeleting' = TRUE /\ typeSpeed' = 2000
                /\ phraseIndex' = phraseIndex
           ELSE IF isDeleting /\ index = 0
           THEN isDeleting' = FALSE /\ typeSpeed' = 500
                /\ phraseIndex' = (phraseIndex + 1) % (Len(phrases) - 1)
           ELSE /\ typeSpeed' = IF isDeleting THEN 50 ELSE 100
                /\ UNCHANGED <<isDeleting, phraseIndex>>
        /\ typePending' = queued + 1

\* type(), run with `queued` type callbacks still queued
type(queued) ==
    LET currentPhrase == phrases[phraseIndex + 1]
        index == IF isDeleting THEN charIndex - 1 ELSE charIndex + 1
    IN  /\ textContent' = IF isDeleting
                          THEN substring0(currentPhrase, charIndex - 1)
                          ELSE substring0(currentPhrase, charIndex + 1)
        /\ charIndex' = index
        /\ typeLog' = IF isDeleting THEN "deleted" ELSE "typed"
        /\ IF ~isDeleting /\ index = Len(currentPhrase)
           THEN isDeleting' = TRUE /\ typeSpeed' = 2000
                /\ phraseIndex' = phraseIndex
           ELSE IF isDeleting /\ index = 0
           THEN isDeleting' = FALSE /\ typeSpeed' = 500
                /\ phraseIndex' = (phraseIndex + 1) % Len(phrases)
           ELSE /\ typeSpeed' = IF isDeleting THEN 50 ELSE 100
                /\ UNCHANGED <<isDeleting, phraseIndex>>
        /\ typePending' = queued + 1

\* the state after the declarations of lines 385-390, on a page with a
\* #typewriter element
TypewriterInit ==
    /\ SceneHeld
    /\ CarouselDeclared("absent", << >>)
    /\ TypewriterDeclared("script")

\* lines 417-419: the script's own call of type()
TypewriterStart ==
    /\ tpc = "script"
    /\ tpc' = "running"
    /\ type(typePending)
    /\ UNCHANGED <<sceneVars, carouselVars>>

\* a queued type callback runs
TypeTimeout ==
    /\ tpc = "running"
    /\ typePending > 0
    /\ type(typePending - 1)
    /\ UNCHANGED tpc
    /\ UNCHANGED <<sceneVars, carouselVars>>

TypewriterNext == TypewriterStart \/ TypeTimeout

TypewriterSpec == TypewriterInit /\ [][TypewriterNext]_vars

\* the script runs to its end, and the browser runs the queued type
\* callback once it is due
TypewriterFairSpec ==
    TypewriterSpec /\ WF_vars(TypewriterStart) /\ WF_vars(TypeTimeout)

----------------------------------------------------------------------------
(* Properties of the carousel *)

\* C12 as stated: at most one auto-play interval timer is set at any time,
\* and every timer that is set is the one carouselInterval names, so that
\* clearInterval(carouselInterval) can clear it.
C12_OneIntervalTimer ==
    /\ Cardinality(timers.active) <= 1
    /\ timers.active \subseteq {timers.carouselInterval}

\* C13 as stated: while the pointer is over the carousel container, from
\* mouseenter to the next mouseleave, no interval timer is set and no
\* interval timer calls nextSlide.
C13_PausedWhileHovering ==
    hovering => /\ timers.active = {}
                /\ carouselOp # "tick"

\* the sequence s turned forward by k places: its first k elements moved
\* to the end
Rotated(s, k) == [i \in 1..Len(s) |-> s[((i - 1 + k) % Len(s)) + 1]]

\* nextSlide calls that passed the guard and have moved their slide
MovedNext ==
    accepted.next
      - Cardinality({i \in 1..Len(timeouts) : timeouts[i].fn = "nextSlide.moved"})

\* C14: the children of the track are always a rotation of the original
\* order 1..n: turned forward once for every nextSlide that passed the guard
\* and has moved its slide, and backward once for every prevSlide that passed
\* the guard.  A call of nextSlide or prevSlide made while isTransitioning is
\* true changes nothing.
C14_TrackIsRotation ==
    [][ /\ track' = Rotated([i \in 1..Len(track) |-> i],
                            MovedNext' + (Len(track) - 1) * accepted'.prev)
        /\ (isTransitioning /\ carouselOp' \in {"next", "prev", "tick"}) =>
              /\ track' = track
              /\ trackStyle' = trackStyle
              /\ isTransitioning' = isTransitioning
              /\ timeouts' = timeouts
              /\ accepted' = accepted ]_vars

\* C14 witness: two nextSlide calls and one prevSlide call have gone through
\* on a track of three slides and the last timeout has run
C14_Witness ==
    /\ Len(track) = 3
    /\ accepted = [next |-> 2, prev |-> 1]
    /\ timeouts = << >>
    /\ track = << 2, 3, 1 >>
    /\ carouselOp = "timeout"

----------------------------------------------------------------------------
(* Properties of the typewriter *)

\* C16: after every run of type(), 0 <= charIndex <= length of the current
\* phrase, 0 <= phraseIndex < 3, the text shown is the prefix of the current
\* phrase of length charIndex, and exactly one type() timeout is pending.
C16_TypewriterInvariant ==
    tpc = "running" =>
        /\ phraseIndex \in 0..2
        /\ charIndex >= 0
        /\ charIndex <= Len(phrases[phraseIndex + 1])
        /\ textContent = SubSeq(phrases[phraseIndex + 1], 1, charIndex)
        /\ typePending = 1

\* C16 witness: the second phrase is being deleted, five characters left
C16_Witness ==
    /\ tpc = "running"
    /\ phraseIndex = 1
    /\ isDeleting
    /\ charIndex = 5
    /\ textContent = << "(", " ", "R", "o", "b" >>

\* C17: the typewriter shows the phrases in the order 0, 1, 2, 0, ...
\* forever.  Every run of type() adds one character of the current phrase
\* or removes one; isDeleting becomes true exactly when the whole phrase is
\* shown and false exactly when the text is empty again, and only then
\* phraseIndex moves on by one modulo 3.  Every phrase is shown whole
\* again and again.
C17_TypewriterCycles ==
    /\ [][ LET full == phrases[phraseIndex + 1]
           IN  /\ Len(textContent') = Len(textContent) + (IF isDeleting THEN -1 ELSE 1)
               /\ textContent' = SubSeq(full, 1, Len(textContent'))
               /\ isDeleting' # isDeleting <=>
                     textContent' = (IF isDeleting THEN << >> ELSE full)
               /\ phraseIndex' = IF isDeleting /\ ~isDeleting'
                                 THEN (phraseIndex + 1) % 3
                                 ELSE phraseIndex ]_vars
    /\ \A i \in 0..2 : []<>(phraseIndex = i /\ textContent = phrases[i + 1])

\* C17 witness: the third phrase is shown whole, after the first two
C17_Witness ==
    /\ phraseIndex = 2
    /\ isDeleting
    /\ typeLog = "typed"
    /\ textContent = phrases[3]

====
